---- MODULE Spec2Model ----
(***************************************************************************)
(* The consensus route: POST /api/consensus (src/app/api/consensus/route.ts) *)
(*                                                                         *)
(* One invocation of POST is modelled as a state machine whose steps are   *)
(* the continuations between the handler's awaits: req.json(), the three   *)
(* generateText calls, the two sleep(500) timers and generateObject.       *)
(*                                                                         *)
(* Conventions.  A nullable or optional JavaScript value is a sequence of  *)
(* length at most one: <<>> is null/undefined/absent and <<v>> is the      *)
(* value v.  A string the code inspects character by character (the        *)
(* prompt) is a sequence of one-character strings; other strings are TLA+  *)
(* strings, and a template literal is the sequence of its fragments.       *)
(***************************************************************************)
EXTENDS Integers, Sequences, FiniteSets, TLC

VARIABLES
    pc,           \* position of the handler: the await it is suspended at
    env,          \* process.env: the deployment's API keys
    body,         \* the request body as received
    prompt,       \* let prompt (route.ts:32), <<>> until assigned
    userKeys,     \* let userKeys (route.ts:33)
    models,       \* const models (route.ts:47), <<>> until built
    gptText, gptError,        \* route.ts:64-65
    claudeText, claudeError,  \* route.ts:83-84
    geminiText, geminiError,  \* route.ts:102-103
    calls,        \* generateText calls issued so far, per provider
    sent,         \* the generateText calls issued, in order
    timers,       \* sleep(500) timers that have fired
    outstanding,  \* providers whose generateText call has not settled
    judgeReq,     \* the generateObject calls issued, in order
    settled,      \* per provider, how its generateText call settled
    judged,       \* how the generateObject call settled
    response,     \* <<>> until the handler returns, then <<Response>>
    elapsed,      \* milliseconds since the handler was entered (saturating)
    at,           \* concurrent invocations: where each one stands
    frames,       \* concurrent invocations: the locals, per scope
    wire,         \* concurrent invocations: the calls each one has issued
    heard,        \* concurrent invocations: how each one's calls settled
    replies,      \* concurrent invocations: the response of each one
    storage,      \* client: localStorage[STORAGE_KEY], <<>> when absent
    draft,        \* client: ApiKeySettings' draft
    apiKeys,      \* client: ConsensusEngine's apiKeys
    settingsOpen, \* client: ConsensusEngine's settingsOpen
    loaded,       \* client: what the last loadKeys call returned or raised
    written,      \* client: the last saveKeys or clearKeys call
    input,        \* client: ConsensusEngine's prompt
    loading,      \* client: ConsensusEngine's loading
    uiResult,     \* client: ConsensusEngine's result
    error,        \* client: ConsensusEngine's error
    fetches,      \* client: the bodies of the requests sent, in order
    pending,      \* client: requests sent and not settled
    answered      \* client: how the request that settled last settled

\* the state of one invocation followed alone
oneVars == <<pc, body, prompt, userKeys, models, gptText, gptError,
             claudeText, claudeError, geminiText, geminiError, calls, sent,
             timers, outstanding, judgeReq, settled, judged, response,
             elapsed>>

\* the state of the invocations followed together
twoVars == <<at, frames, wire, heard, replies>>

\* the state of the page
clientVars == <<storage, draft, apiKeys, settingsOpen, loaded, written,
                input, loading, uiResult, error, fetches, pending, answered>>

vars == <<env, oneVars, twoVars, clientVars>>

----------------------------------------------------------------------------
(* Bounds of the model *)

\* longest prompt string a request carries
MaxPromptLen == 2
\* longest claims array a judge output carries
MaxClaims == 1
\* duration of a network call that answers quickly / slowly, in ms
FastMs == 1000
SlowMs == 30000

(* Program constants *)

\* export const maxDuration = 60 (seconds)
maxDuration == 60
\* await sleep(500)
SleepMs == 500

----------------------------------------------------------------------------
(* JavaScript helpers *)

Null == <<>>
Some(v) == <<v>>

\* Boolean(x) for a string | null | undefined: null and "" are falsy
Truthy(x) == x # Null /\ x[1] # ""

\* x ?? d
Coalesce(x, d) == IF x = Null THEN d ELSE x[1]

Providers == {"gpt", "claude", "gemini"}

Chars == {" ", "a"}
IsSpace(c) == c = " "

RECURSIVE TrimStart(_)
TrimStart(s) ==
    IF s # <<>> /\ IsSpace(Head(s)) THEN TrimStart(Tail(s)) ELSE s

RECURSIVE TrimEnd(_)
TrimEnd(s) ==
    IF s # <<>> /\ IsSpace(s[Len(s)]) THEN TrimEnd(SubSeq(s, 1, Len(s) - 1))
    ELSE s

\* String.prototype.trim
Trim(s) == TrimEnd(TrimStart(s))

RECURSIVE SeqsUpTo(_, _)
SeqsUpTo(S, n) ==
    IF n = 0 THEN {<<>>}
    ELSE LET shorter == SeqsUpTo(S, n - 1)
         IN  shorter \cup {Append(s, x) : s \in shorter, x \in S}

----------------------------------------------------------------------------
(* Requests *)

\* A JSON value found at body.prompt: t is its kind ("undefined" when the
\* field is missing), s its characters when it is a string, n its value
\* when it is a number.
JsUndefined == [t |-> "undefined", s |-> <<>>, n |-> 0]
JsNull == [t |-> "null", s |-> <<>>, n |-> 0]
JsArray == [t |-> "array", s |-> <<>>, n |-> 0]
JsNumber(k) == [t |-> "number", s |-> <<>>, n |-> k]
JsString(str) == [t |-> "string", s |-> str, n |-> 0]

\* typeof v
TypeOf(v) == IF v.t \in {"null", "array"} THEN "object" ELSE v.t

PromptValues ==
    {JsUndefined, JsNull, JsArray, JsNumber(0), JsNumber(7)}
        \cup {JsString(str) : str \in SeqsUpTo(Chars, MaxPromptLen)}

\* kind "malformed": req.json() rejects; "null": the body is the JSON value
\* null, so body?.prompt is undefined; "object": a JSON object.  keys is
\* <<>> when the body has no keys field.
Bodies ==
    {[kind |-> "malformed", prompt |-> JsUndefined, keys |-> Null],
     [kind |-> "null", prompt |-> JsUndefined, keys |-> Null]}
        \cup {[kind |-> "object", prompt |-> v, keys |-> Null] :
                v \in PromptValues}

\* body?.prompt
BodyPrompt(b) == IF b.kind = "object" THEN b.prompt ELSE JsUndefined

\* {}: an object without the three key fields
NoKeys == [openai |-> Null, anthropic |-> Null, google |-> Null]

\* body?.keys ?? {}
BodyKeys(b) == IF b.kind = "object" THEN Coalesce(b.keys, NoKeys) ELSE NoKeys

\* the keys objects a request may carry: a field is missing, the empty
\* string or the user's key for that provider
KeyMaps ==
    {NoKeys,
     [openai |-> Some("sk-user-openai"), anthropic |-> Some("sk-user-anthropic"),
      google |-> Some("sk-user-google")],
     [openai |-> Some("sk-user-openai"), anthropic |-> Some(""), google |-> Null],
     [openai |-> Some(""), anthropic |-> Null, google |-> Some("sk-user-google")],
     [openai |-> Null, anthropic |-> Some("sk-user-anthropic"), google |-> Some("")]}

\* the bodies of the requests that differ in their keys
KeyBodies ==
    {[kind |-> "object", prompt |-> JsString(<<"a">>), keys |-> k] :
        k \in {Null} \cup {Some(m) : m \in KeyMaps}}

\* process.env with the three variables set
DeploymentEnv ==
    [OPENAI_API_KEY |-> Some("sk-env-openai"),
     ANTHROPIC_API_KEY |-> Some("sk-env-anthropic"),
     GOOGLE_GENERATIVE_AI_API_KEY |-> Some("sk-env-google")]

\* process.env with none of them set
EmptyEnv ==
    [OPENAI_API_KEY |-> Null, ANTHROPIC_API_KEY |-> Null,
     GOOGLE_GENERATIVE_AI_API_KEY |-> Null]

\* a || b || ''
OrElse(a, b) == IF Truthy(a) THEN a[1] ELSE IF Truthy(b) THEN b[1] ELSE ""

\* createOpenAI({apiKey})(modelId) and its siblings: a model instance
Model(provider, apiKey, modelId) ==
    [provider |-> provider, apiKey |-> apiKey, modelId |-> modelId]

\* buildModels with every client given the OpenAI key
buildModelsOneKey(keys, e) ==
    LET k == OrElse(keys.openai, e.OPENAI_API_KEY)
    IN  [gpt |-> Model("openai", k, "gpt-4o-mini"),
         claude |-> Model("anthropic", k, "claude-3-5-sonnet-20241022"),
         gemini |-> Model("google", k, "gemini-2.0-flash"),
         synthesizer |-> Model("openai", k, "gpt-4o-mini")]

\* buildModels (route.ts:11-29)
buildModels(keys, e) ==
    LET openai == OrElse(keys.openai, e.OPENAI_API_KEY)
        anthropic == OrElse(keys.anthropic, e.ANTHROPIC_API_KEY)
        google == OrElse(keys.google, e.GOOGLE_GENERATIVE_AI_API_KEY)
    IN  [gpt |-> Model("openai", openai, "gpt-4o-mini"),
         claude |-> Model("anthropic", anthropic, "claude-3-5-sonnet-20241022"),
         gemini |-> Model("google", google, "gemini-2.0-flash"),
         synthesizer |-> Model("openai", openai, "gpt-4o-mini")]

\* !prompt
Falsy(v) ==
    \/ v.t = "undefined"
    \/ v.t = "null"
    \/ v.t = "number" /\ v.n = 0
    \/ v.t = "string" /\ v.s = <<>>

\* the check without its trim() clause
PromptRejectedNoTrim(v) ==
    Falsy(v) \/ TypeOf(v) # "string"

\* !prompt || typeof prompt !== 'string' || prompt.trim().length === 0
PromptRejected(v) ==
    Falsy(v) \/ TypeOf(v) # "string" \/ Len(Trim(v.s)) = 0

----------------------------------------------------------------------------
(* Outcomes of a generateText call *)

\* res.text of a call that resolved
Texts == {"", "answer"}
\* err.message of a call that rejected
Messages == {"", "invalid API key"}

\* how a generateText call settles: it resolves with res.text, or rejects
\* with an Error whose message is a string
ProviderResults ==
    {[resolved |-> TRUE, text |-> t, message |-> ""] : t \in Texts}
        \cup {[resolved |-> FALSE, text |-> "", message |-> m] : m \in Messages}

\* what a rejected call rejects with
Fault(isError, message) == [isError |-> isError, message |-> message]

\* the block with a catch that rethrows
TryGenerateTextRethrow(result) ==
    IF result.resolved
    THEN [text |-> Some(result.text), error |-> Null, thrown |-> Null]
    ELSE [text |-> Null, error |-> Some(result.message),
          thrown |-> Some(Fault(TRUE, result.message))]

\* try { const res = await generateText(...); xText = res.text }
\* catch (err: any) { xError = err.message }
\* thrown is what leaves the block: nothing, the catch has no rethrow
TryGenerateText(result) ==
    IF result.resolved
    THEN [text |-> Some(result.text), error |-> Null, thrown |-> Null]
    ELSE [text |-> Null, error |-> Some(result.message), thrown |-> Null]

CallDurations == {FastMs, SlowMs}

\* the clock saturates one millisecond past the deadline
ClockCap == maxDuration * 1000 + 1
Advance(t, d) == IF t + d > ClockCap THEN ClockCap ELSE t + d

----------------------------------------------------------------------------
(* The gate, the judge selection and the two bodies built from a round *)

\* [gptText, claudeText, geminiText].filter(Boolean).length
successCount(g, c, m) ==
    Cardinality({i \in 1..3 : Truthy(<<g, c, m>>[i])})

\* gptError ? `GPT-5.2: ${gptError}` : null
FailureEntry(label, e) ==
    IF Truthy(e) THEN Some(<<label, ": ", e[1]>>) ELSE Null

\* Array.prototype.filter(Boolean) on a list of template strings and nulls
RECURSIVE FilterBoolean(_)
FilterBoolean(xs) ==
    IF xs = <<>> THEN <<>>
    ELSE IF Head(xs) # Null THEN <<Head(xs)[1]>> \o FilterBoolean(Tail(xs))
    ELSE FilterBoolean(Tail(xs))

failures(ge, ce, me) ==
    FilterBoolean(<<FailureEntry("GPT-5.2", ge),
                    FailureEntry("Claude 3.5 Sonnet", ce),
                    FailureEntry("Gemini 2 Flash", me)>>)

\* (!gptError) ? models.gpt : (!geminiError) ? models.gemini : models.claude
synthesizerModel(ge, me) ==
    IF ~Truthy(ge) THEN "gpt" ELSE IF ~Truthy(me) THEN "gemini" ELSE "claude"

\* the prompt template of generateObject: the question and the MODEL A, B
\* and C sections
JudgePrompt(p, g, c, m) ==
    [question |-> p,
     A |-> Coalesce(g, "[MODEL UNAVAILABLE]"),
     B |-> Coalesce(c, "[MODEL UNAVAILABLE]"),
     C |-> Coalesce(m, "[MODEL UNAVAILABLE]")]

\* the mapping built with || in place of ??
raw_answersOr(g, c, m) ==
    [gpt |-> IF Truthy(g) THEN g[1] ELSE "[unavailable]",
     claude |-> IF Truthy(c) THEN c[1] ELSE "[unavailable]",
     gemini |-> IF Truthy(m) THEN m[1] ELSE "[unavailable]"]

raw_answers(g, c, m) ==
    [gpt |-> Coalesce(g, "[unavailable]"),
     claude |-> Coalesce(c, "[unavailable]"),
     gemini |-> Coalesce(m, "[unavailable]")]

\* Response.json(data, {status}): order is the order in which
\* JSON.stringify writes the keys of data, the insertion order of the
\* object literals (a nested key is written "outer.inner")
Json(data, order, status) ==
    [status |-> status, body |-> data, order |-> order]

----------------------------------------------------------------------------
(* The judge's output and the Verdict schema (route.ts:145-159) *)

\* a JSON value found at consensus_score: the number num/den, or a string
Num(n, d) == [t |-> "number", num |-> n, den |-> d]
NotANumber == [t |-> "string", num |-> 0, den |-> 1]

LevelEnum == {"High", "Medium", "Low"}
SupporterEnum == {"GPT-5.2", "Claude 3.5 Sonnet", "Gemini 2 Flash"}

\* the display name the schema gives each provider
DisplayName(p) ==
    CASE p = "gpt" -> "GPT-5.2"
      [] p = "claude" -> "Claude 3.5 Sonnet"
      [] p = "gemini" -> "Gemini 2 Flash"

\* scores a judge may emit: the band edges, both ends of the range, one
\* value past each end, a fraction and a non-number
ScoreValues ==
    {Num(n, 1) : n \in {-1, 0, 39, 40, 69, 70, 100, 101}}
        \cup {Num(7, 2), NotANumber}
LevelValues == LevelEnum \cup {"Unanimous"}

NameLists == {<<>>} \cup {<<n>> : n \in SupporterEnum \cup {"Llama 3"}}

MkClaim(s, d, w) ==
    [text |-> "fact", supporters |-> s, dissenters |-> d, warning |-> w]

ClaimValues ==
    {MkClaim(s, <<>>, Null) : s \in NameLists}
        \cup {MkClaim(<<"GPT-5.2">>, d, w) :
                d \in NameLists, w \in {Null, Some("disputed")}}

MkObject(score, level, summary, claims, conflicts) ==
    [consensus_score |-> score, consensus_level |-> level,
     summary |-> summary, claims |-> claims, conflicts |-> conflicts]

SomeConflicts == Some(<<[topic |-> "dose", description |-> "they differ"]>>)

\* the objects the judge model may emit, before validation: every score
\* with every level, every claims array, and the optional and missing fields
JudgeObjects ==
    {MkObject(sc, lv, Some("blend"), Some(<<>>), Null) :
        sc \in ScoreValues, lv \in LevelValues}
        \cup {MkObject(Num(80, 1), "High", Some("blend"), Some(cs), Null) :
                cs \in SeqsUpTo(ClaimValues, MaxClaims)}
        \cup {MkObject(Num(80, 1), "High", Some("blend"), Some(<<>>), SomeConflicts),
              MkObject(Num(80, 1), "High", Null, Some(<<>>), Null),
              MkObject(Num(80, 1), "High", Some("blend"), Null, Null)}

\* consensus_score: z.number()
ScoreSchema(v) == v.t = "number"

\* consensus_level: z.enum(['High', 'Medium', 'Low'])
LevelSchema(v) == v \in LevelEnum

\* supporters: z.array(z.enum(['GPT-5.2', 'Claude 3.5 Sonnet', 'Gemini 2 Flash']))
SupportersSchema(names) ==
    \A i \in 1..Len(names) : names[i] \in SupporterEnum

\* dissenters: z.array(z.string())
DissentersSchema(names) == TRUE

\* one element of claims: z.object({text, supporters, dissenters, warning})
ClaimSchema(c) ==
    SupportersSchema(c.supporters) /\ DissentersSchema(c.dissenters)

\* the whole z.object: required fields present, every field of its type
VerdictSchema(o) ==
    /\ ScoreSchema(o.consensus_score)
    /\ LevelSchema(o.consensus_level)
    /\ o.summary # Null
    /\ o.claims # Null
    /\ \A i \in 1..Len(o.claims[1]) : ClaimSchema(o.claims[1][i])

\* synthesis.object: the validated object
SynthesisObject(o) ==
    [consensus_score |-> o.consensus_score,
     consensus_level |-> o.consensus_level,
     summary |-> o.summary[1],
     claims |-> o.claims[1],
     conflicts |-> o.conflicts]

\* what generateObject rejects with
JudgeFaults ==
    {Fault(TRUE, "rate limit exceeded"), Fault(TRUE, ""), Fault(FALSE, "")}
SchemaFault == Fault(TRUE, "No object generated: response did not match schema.")

\* the call without validation: whatever object the judge emitted is
\* returned, a missing field left empty
GenerateObjectUnchecked(result) ==
    IF result.fault # Null THEN [object |-> Null, thrown |-> result.fault]
    ELSE [object |-> Some([consensus_score |-> result.object[1].consensus_score,
                           consensus_level |-> result.object[1].consensus_level,
                           summary |-> Coalesce(result.object[1].summary, ""),
                           claims |-> Coalesce(result.object[1].claims, <<>>),
                           conflicts |-> result.object[1].conflicts]),
          thrown |-> Null]

\* generateObject settles: it resolves with the validated object, or
\* rejects with the call's fault or with the validation fault
GenerateObject(result) ==
    IF result.fault # Null THEN [object |-> Null, thrown |-> result.fault]
    ELSE IF VerdictSchema(result.object[1])
         THEN [object |-> Some(SynthesisObject(result.object[1])), thrown |-> Null]
         ELSE [object |-> Null, thrown |-> Some(SchemaFault)]

JudgeResults ==
    {[fault |-> Some(f), object |-> Null] : f \in JudgeFaults}
        \cup {[fault |-> Null, object |-> Some(o)] : o \in JudgeObjects}

\* { ...synthesis.object, raw_answers: {...} }
Payload(obj, g, c, m) ==
    [consensus_score |-> obj.consensus_score,
     consensus_level |-> obj.consensus_level,
     summary |-> obj.summary,
     claims |-> obj.claims,
     conflicts |-> obj.conflicts,
     raw_answers |-> raw_answers(g, c, m)]

\* the keys of the payload with those of raw_answers in alphabetical order
PayloadOrderSorted(obj) ==
    <<"consensus_score", "consensus_level", "summary", "claims">>
        \o (IF obj.conflicts # Null THEN <<"conflicts">> ELSE <<>>)
        \o <<"raw_answers", "raw_answers.claude", "raw_answers.gemini",
              "raw_answers.gpt">>

\* the keys of { ...synthesis.object, raw_answers: { gpt, claude, gemini } }
\* in insertion order; an optional field the judge left out is no key
PayloadOrder(obj) ==
    <<"consensus_score", "consensus_level", "summary", "claims">>
        \o (IF obj.conflicts # Null THEN <<"conflicts">> ELSE <<>>)
        \o <<"raw_answers", "raw_answers.gpt", "raw_answers.claude",
              "raw_answers.gemini">>

\* a catch that answers with the caught message alone
CatchResponseMessage(fault) ==
    Json([error |-> IF fault.isError THEN fault.message ELSE "Unknown error"],
         <<"error">>, 500)

\* the outer catch (route.ts:197-201)
CatchResponse(fault) ==
    Json([error |-> "Failed to generate consensus.",
          details |-> IF fault.isError THEN fault.message ELSE "Unknown error"],
         <<"error", "details">>,
         500)

----------------------------------------------------------------------------
(* The handler *)

\* the handler is entered: every local is unassigned, nothing was called
Entered ==
    /\ pc = "json"
    /\ prompt = JsUndefined
    /\ userKeys = NoKeys
    /\ models = Null
    /\ sent = <<>>
    /\ timers = 0
    /\ gptText = Null /\ gptError = Null
    /\ claudeText = Null /\ claudeError = Null
    /\ geminiText = Null /\ geminiError = Null
    /\ calls = [p \in Providers |-> 0]
    /\ outstanding = {}
    /\ judgeReq = <<>>
    /\ settled = [p \in Providers |-> Null]
    /\ judged = Null
    /\ response = Null
    /\ elapsed = 0

\* no concurrent invocations are followed
NoneTogether ==
    /\ at = <<>>
    /\ frames = <<>>
    /\ wire = <<>>
    /\ heard = <<>>
    /\ replies = <<>>

\* no page is followed
NoClient ==
    /\ storage = <<>>
    /\ draft = <<>>
    /\ apiKeys = <<>>
    /\ settingsOpen = FALSE
    /\ loaded = <<>>
    /\ written = <<>>
    /\ input = <<>>
    /\ loading = FALSE
    /\ uiResult = <<>>
    /\ error = <<>>
    /\ fetches = <<>>
    /\ pending = 0
    /\ answered = <<>>

\* any request, without keys, on a deployment with its own keys
Init ==
    /\ env = DeploymentEnv
    /\ body \in Bodies
    /\ Entered
    /\ NoneTogether
    /\ NoClient

\* a valid request with any keys object, on a deployment with or without
\* its own keys
InitKeys ==
    /\ env \in {DeploymentEnv, EmptyEnv}
    /\ body \in KeyBodies
    /\ Entered
    /\ NoneTogether
    /\ NoClient

\* return Response.json(...)
Return(r) == response' = Some(r) /\ pc' = "done"

\* generateText({model: m[p], prompt: q, system}) is called
IssueGenerateText(p, m, q) ==
    /\ calls' = [calls EXCEPT ![p] = @ + 1]
    /\ sent' = Append(sent, [model |-> m[p], prompt |-> q])
    /\ outstanding' = outstanding \cup {p}

\* a gate that asks for two answers
TotalFailureBelowTwo(n) == n < 2

\* successCount === 0
TotalFailure(n) == n = 0

\* req.json() settles; validation; buildModels; the GPT call is issued
\* (route.ts:35-72)
Receive ==
    /\ pc = "json"
    /\ IF body.kind = "malformed"
       THEN /\ Return(Json([error |-> "Invalid JSON in request body."],
                           <<"error">>, 400))
            /\ UNCHANGED <<prompt, userKeys, models, calls, sent, outstanding>>
       ELSE /\ prompt' = BodyPrompt(body)
            /\ userKeys' = BodyKeys(body)
            /\ IF PromptRejected(BodyPrompt(body))
               THEN /\ Return(Json([error |-> "A non-empty 'prompt' field is required."],
                                   <<"error">>, 400))
                    /\ UNCHANGED <<models, calls, sent, outstanding>>
               ELSE /\ models' = Some(buildModels(BodyKeys(body), env))
                    /\ IssueGenerateText("gpt", buildModels(BodyKeys(body), env),
                                         BodyPrompt(body).s)
                    /\ pc' = "gpt"
                    /\ UNCHANGED response
    /\ UNCHANGED <<env, body, gptText, gptError, claudeText, claudeError,
                   geminiText, geminiError, timers, judgeReq, settled, judged,
                   elapsed>>
    /\ UNCHANGED <<twoVars, clientVars>>

\* the GPT call settles; sleep(500) is started (route.ts:66-80)
GptSettle ==
    /\ pc = "gpt"
    /\ \E result \in ProviderResults, d \in CallDurations :
         LET o == TryGenerateText(result)
         IN  /\ settled' = [settled EXCEPT !["gpt"] = Some(result)]
             /\ gptText' = o.text
             /\ gptError' = o.error
             /\ elapsed' = Advance(elapsed, d)
             /\ IF o.thrown # Null
                THEN Return(CatchResponse(o.thrown[1]))
                ELSE pc' = "sleep1" /\ UNCHANGED response
    /\ outstanding' = outstanding \ {"gpt"}
    /\ UNCHANGED <<env, body, prompt, userKeys, models, claudeText,
                   claudeError, geminiText, geminiError, calls, sent, timers,
                   judgeReq, judged>>
    /\ UNCHANGED <<twoVars, clientVars>>

\* the Claude call issued as soon as the GPT call has settled, with no
\* sleep in between
Sleep1Skipped ==
    /\ pc = "sleep1"
    /\ IssueGenerateText("claude", models[1], prompt.s)
    /\ pc' = "claude"
    /\ UNCHANGED <<env, body, prompt, userKeys, models, gptText, gptError,
                   claudeText, claudeError, geminiText, geminiError, judgeReq,
                   settled, judged, response, timers, elapsed>>
    /\ UNCHANGED <<twoVars, clientVars>>

\* the first timer fires; the Claude call is issued (route.ts:80-91)
Sleep1Done ==
    /\ pc = "sleep1"
    /\ elapsed' = Advance(elapsed, SleepMs)
    /\ timers' = timers + 1
    /\ IssueGenerateText("claude", models[1], prompt.s)
    /\ pc' = "claude"
    /\ UNCHANGED <<env, body, prompt, userKeys, models, gptText, gptError,
                   claudeText, claudeError, geminiText, geminiError, judgeReq,
                   settled, judged, response>>
    /\ UNCHANGED <<twoVars, clientVars>>

\* the Claude call settles; sleep(500) is started (route.ts:85-99)
ClaudeSettle ==
    /\ pc = "claude"
    /\ \E result \in ProviderResults, d \in CallDurations :
         LET o == TryGenerateText(result)
         IN  /\ settled' = [settled EXCEPT !["claude"] = Some(result)]
             /\ claudeText' = o.text
             /\ claudeError' = o.error
             /\ elapsed' = Advance(elapsed, d)
             /\ IF o.thrown # Null
                THEN Return(CatchResponse(o.thrown[1]))
                ELSE pc' = "sleep2" /\ UNCHANGED response
    /\ outstanding' = outstanding \ {"claude"}
    /\ UNCHANGED <<env, body, prompt, userKeys, models, gptText, gptError,
                   geminiText, geminiError, calls, sent, timers, judgeReq,
                   judged>>
    /\ UNCHANGED <<twoVars, clientVars>>

\* the second timer fires; the Gemini call is issued (route.ts:99-110)
Sleep2Done ==
    /\ pc = "sleep2"
    /\ elapsed' = Advance(elapsed, SleepMs)
    /\ timers' = timers + 1
    /\ IssueGenerateText("gemini", models[1], prompt.s)
    /\ pc' = "gemini"
    /\ UNCHANGED <<env, body, prompt, userKeys, models, gptText, gptError,
                   claudeText, claudeError, geminiText, geminiError, judgeReq,
                   settled, judged, response>>
    /\ UNCHANGED <<twoVars, clientVars>>

\* the Gemini call settles; the gate; the judge is selected and
\* generateObject is called (route.ts:104-183)
GeminiSettle ==
    /\ pc = "gemini"
    /\ \E result \in ProviderResults, d \in CallDurations :
         LET o == TryGenerateText(result)
         IN  /\ settled' = [settled EXCEPT !["gemini"] = Some(result)]
             /\ geminiText' = o.text
             /\ geminiError' = o.error
             /\ elapsed' = Advance(elapsed, d)
             /\ IF o.thrown # Null
                THEN Return(CatchResponse(o.thrown[1])) /\ UNCHANGED judgeReq
                ELSE IF TotalFailure(successCount(gptText, claudeText, o.text))
                THEN /\ Return(Json([error |-> "All models failed to respond.",
                                     failures |-> failures(gptError, claudeError,
                                                           o.error)],
                                    <<"error", "failures">>, 502))
                     /\ UNCHANGED judgeReq
                ELSE /\ judgeReq' =
                          Append(judgeReq,
                                 [model |-> synthesizerModel(gptError, o.error),
                                  instance |->
                                      models[1][synthesizerModel(gptError, o.error)],
                                  prompt |-> JudgePrompt(prompt.s, gptText,
                                                         claudeText, o.text)])
                     /\ pc' = "judge"
                     /\ UNCHANGED response
    /\ outstanding' = outstanding \ {"gemini"}
    /\ UNCHANGED <<env, body, prompt, userKeys, models, gptText, gptError,
                   claudeText, claudeError, calls, sent, timers, judged>>
    /\ UNCHANGED <<twoVars, clientVars>>

\* generateObject settles; the payload or the outer catch (route.ts:143-201)
JudgeSettle ==
    /\ pc = "judge"
    /\ \E result \in JudgeResults, d \in CallDurations :
         LET r == GenerateObject(result)
         IN  /\ judged' = Some(result)
             /\ elapsed' = Advance(elapsed, d)
             /\ IF r.thrown # Null
                THEN Return(CatchResponse(r.thrown[1]))
                ELSE Return(Json(Payload(r.object[1], gptText, claudeText,
                                         geminiText),
                                 PayloadOrder(r.object[1]), 200))
    /\ UNCHANGED <<env, body, prompt, userKeys, models, gptText, gptError,
                   claudeText, claudeError, geminiText, geminiError, calls,
                   sent, timers, outstanding, judgeReq, settled>>
    /\ UNCHANGED <<twoVars, clientVars>>

Next ==
    \/ Receive
    \/ GptSettle
    \/ Sleep1Done
    \/ ClaudeSettle
    \/ Sleep2Done
    \/ GeminiSettle
    \/ JudgeSettle

Spec == Init /\ [][Next]_vars

\* the same handler, started on the requests that differ in their keys
SpecKeys == InitKeys /\ [][Next]_vars

\* every await of the handler settles: the claims about termination assume
\* that each provider call, each timer and the judge call settle
FairSpec == Spec /\ WF_vars(Next)

----------------------------------------------------------------------------
(* Concurrent invocations of POST.  The module holds no variable of its own:
   maxDuration, sleep and buildModels are constants, and every let and
   const of the handler is declared inside POST, so each invocation has an
   activation record of its own. *)

NumRequests == 2
Requests == 1..NumRequests

\* every invocation writing to one record, as with the lets at module level
SharedScope(i) == 1

\* the activation record an invocation's let and const declarations live in
ScopeOf(i) == i

\* the i-th request: its own prompt and its own keys; an even one leaves
\* the Anthropic key out
RequestBody(i) ==
    [kind |-> "object",
     prompt |-> JsString([k \in 1..i |-> "a"]),
     keys |-> Some([openai |-> Some("sk-user" \o ToString(i) \o "-openai"),
                    anthropic |-> IF i % 2 = 0 THEN Null
                                  ELSE Some("sk-user" \o ToString(i) \o "-anthropic"),
                    google |-> Some("sk-user" \o ToString(i) \o "-google")])]

\* how the provider calls of the i-th request may settle
ProviderResultsOf(i) ==
    {[resolved |-> TRUE, text |-> "answer" \o ToString(i), message |-> ""],
     [resolved |-> FALSE, text |-> "", message |-> "fault" \o ToString(i)]}

\* how its judge call may settle
JudgeResultsOf(i) ==
    {[fault |-> Some(Fault(TRUE, "rate limit exceeded")), object |-> Null],
     [fault |-> Null,
      object |-> Some(MkObject(Num(80, 1), "High", Some("blend" \o ToString(i)),
                               Some(<<>>), Null))]}

\* the locals before any assignment (route.ts:32-33, 58-61)
EmptyFrame ==
    [prompt |-> JsUndefined, userKeys |-> NoKeys, models |-> Null,
     gptText |-> Null, gptError |-> Null, claudeText |-> Null,
     claudeError |-> Null, geminiText |-> Null, geminiError |-> Null]

InitTwo ==
    /\ env = DeploymentEnv
    /\ body = RequestBody(1)
    /\ Entered
    /\ at = [i \in Requests |-> "json"]
    /\ frames = [sc \in Requests |-> EmptyFrame]
    /\ wire = [i \in Requests |-> <<>>]
    /\ heard = [i \in Requests |->
                    [gpt |-> Null, claude |-> Null, gemini |-> Null,
                     judge |-> Null]]
    /\ replies = [i \in Requests |-> Null]
    /\ NoClient

\* the locals invocation i reads
Frame(i) == frames[ScopeOf(i)]

\* return of invocation i
ReturnAt(i, r) ==
    /\ replies' = [replies EXCEPT ![i] = Some(r)]
    /\ at' = [at EXCEPT ![i] = "done"]

\* invocation i calls generateText or generateObject
IssueAt(i, call) == wire' = [wire EXCEPT ![i] = Append(@, call)]

\* route.ts:35-72 in invocation i
ReceiveAt(i) ==
    /\ at[i] = "json"
    /\ LET b == RequestBody(i)
       IN  IF b.kind = "malformed"
           THEN /\ ReturnAt(i, Json([error |-> "Invalid JSON in request body."],
                                    <<"error">>, 400))
                /\ UNCHANGED <<frames, wire>>
           ELSE IF PromptRejected(BodyPrompt(b))
           THEN /\ frames' = [frames EXCEPT ![ScopeOf(i)] =
                                [@ EXCEPT !.prompt = BodyPrompt(b),
                                          !.userKeys = BodyKeys(b)]]
                /\ ReturnAt(i, Json([error |-> "A non-empty 'prompt' field is required."],
                                    <<"error">>, 400))
                /\ UNCHANGED wire
           ELSE /\ frames' = [frames EXCEPT ![ScopeOf(i)] =
                                [@ EXCEPT !.prompt = BodyPrompt(b),
                                          !.userKeys = BodyKeys(b),
                                          !.models = Some(buildModels(BodyKeys(b), env))]]
                /\ IssueAt(i, [model |-> buildModels(BodyKeys(b), env).gpt,
                               prompt |-> BodyPrompt(b).s])
                /\ at' = [at EXCEPT ![i] = "gpt"]
                /\ UNCHANGED replies
    /\ UNCHANGED <<env, oneVars, heard>>
    /\ UNCHANGED clientVars

\* route.ts:66-80 in invocation i
GptSettleAt(i) ==
    /\ at[i] = "gpt"
    /\ \E result \in ProviderResultsOf(i) :
         LET o == TryGenerateText(result)
         IN  /\ heard' = [heard EXCEPT ![i].gpt = Some(result)]
             /\ frames' = [frames EXCEPT ![ScopeOf(i)] =
                             [@ EXCEPT !.gptText = o.text, !.gptError = o.error]]
             /\ IF o.thrown # Null
                THEN ReturnAt(i, CatchResponse(o.thrown[1]))
                ELSE at' = [at EXCEPT ![i] = "sleep1"] /\ UNCHANGED replies
    /\ UNCHANGED <<env, oneVars, wire>>
    /\ UNCHANGED clientVars

\* route.ts:80-91 in invocation i
Sleep1DoneAt(i) ==
    /\ at[i] = "sleep1"
    /\ IssueAt(i, [model |-> Frame(i).models[1].claude,
                   prompt |-> Frame(i).prompt.s])
    /\ at' = [at EXCEPT ![i] = "claude"]
    /\ UNCHANGED <<env, oneVars, frames, heard, replies>>
    /\ UNCHANGED clientVars

\* route.ts:85-99 in invocation i
ClaudeSettleAt(i) ==
    /\ at[i] = "claude"
    /\ \E result \in ProviderResultsOf(i) :
         LET o == TryGenerateText(result)
         IN  /\ heard' = [heard EXCEPT ![i].claude = Some(result)]
             /\ frames' = [frames EXCEPT ![ScopeOf(i)] =
                             [@ EXCEPT !.claudeText = o.text,
                                       !.claudeError = o.error]]
             /\ IF o.thrown # Null
                THEN ReturnAt(i, CatchResponse(o.thrown[1]))
                ELSE at' = [at EXCEPT ![i] = "sleep2"] /\ UNCHANGED replies
    /\ UNCHANGED <<env, oneVars, wire>>
    /\ UNCHANGED clientVars

\* route.ts:99-110 in invocation i
Sleep2DoneAt(i) ==
    /\ at[i] = "sleep2"
    /\ IssueAt(i, [model |-> Frame(i).models[1].gemini,
                   prompt |-> Frame(i).prompt.s])
    /\ at' = [at EXCEPT ![i] = "gemini"]
    /\ UNCHANGED <<env, oneVars, frames, heard, replies>>
    /\ UNCHANGED clientVars

\* route.ts:104-183 in invocation i
GeminiSettleAt(i) ==
    /\ at[i] = "gemini"
    /\ \E result \in ProviderResultsOf(i) :
         LET o == TryGenerateText(result)
             f == Frame(i)
         IN  /\ heard' = [heard EXCEPT ![i].gemini = Some(result)]
             /\ frames' = [frames EXCEPT ![ScopeOf(i)] =
                             [@ EXCEPT !.geminiText = o.text,
                                       !.geminiError = o.error]]
             /\ IF o.thrown # Null
                THEN ReturnAt(i, CatchResponse(o.thrown[1])) /\ UNCHANGED wire
                ELSE IF TotalFailure(successCount(f.gptText, f.claudeText, o.text))
                THEN /\ ReturnAt(i, Json([error |-> "All models failed to respond.",
                                          failures |-> failures(f.gptError,
                                                                f.claudeError,
                                                                o.error)],
                                         <<"error", "failures">>, 502))
                     /\ UNCHANGED wire
                ELSE /\ IssueAt(i, [model |-> f.models[1][synthesizerModel(f.gptError,
                                                                           o.error)],
                                    prompt |-> JudgePrompt(f.prompt.s, f.gptText,
                                                           f.claudeText, o.text)])
                     /\ at' = [at EXCEPT ![i] = "judge"]
                     /\ UNCHANGED replies
    /\ UNCHANGED <<env, oneVars, clientVars>>

\* route.ts:143-201 in invocation i
JudgeSettleAt(i) ==
    /\ at[i] = "judge"
    /\ \E result \in JudgeResultsOf(i) :
         LET r == GenerateObject(result)
             f == Frame(i)
         IN  /\ heard' = [heard EXCEPT ![i].judge = Some(result)]
             /\ IF r.thrown # Null
                THEN ReturnAt(i, CatchResponse(r.thrown[1]))
                ELSE ReturnAt(i, Json(Payload(r.object[1], f.gptText,
                                              f.claudeText, f.geminiText),
                                      PayloadOrder(r.object[1]), 200))
    /\ UNCHANGED <<env, oneVars, frames, wire>>
    /\ UNCHANGED clientVars

NextTwo ==
    \E i \in Requests :
        \/ ReceiveAt(i)
        \/ GptSettleAt(i)
        \/ Sleep1DoneAt(i)
        \/ ClaudeSettleAt(i)
        \/ Sleep2DoneAt(i)
        \/ GeminiSettleAt(i)
        \/ JudgeSettleAt(i)

\* the invocations interleave at their awaits
SpecTwo == InitTwo /\ [][NextTwo]_vars

----------------------------------------------------------------------------
(* The page: the credential store and the settings dialog
   (src/unnamed/part_000:17-150).  A string is the sequence of its
   characters; a UserApiKeys object is a record of the three optional
   fields, <<>> for a field that is missing or undefined. *)

\* PROVIDERS[k].id, in order
ProviderIds == <<"openai", "anthropic", "google">>

\* what may stand in an input of the dialog
KeyStrings == {<<>>, <<" ">>, <<"a">>, <<" ", "a", " ">>}

\* a JSON text is a sequence of tokens
Tok(t, n, v) == [tok |-> t, name |-> n, value |-> v]
OpenBrace == Tok("{", "", <<>>)
CloseBrace == Tok("}", "", <<>>)

\* "name":"value"
Member(n, v) == Tok("member", n, v)

\* a text that is no JSON: an object cut short
Garbage == <<OpenBrace, Member("openai", <<"a">>)>>

RECURSIVE Members(_, _)
\* the members JSON.stringify writes for fields k..3: a field whose value
\* is undefined is left out
Members(keys, k) ==
    IF k > Len(ProviderIds) THEN <<>>
    ELSE (IF keys[ProviderIds[k]] = Null THEN <<>>
          ELSE <<Member(ProviderIds[k], keys[ProviderIds[k]][1])>>)
         \o Members(keys, k + 1)

\* JSON.stringify(keys)
Stringify(keys) == <<OpenBrace>> \o Members(keys, 1) \o <<CloseBrace>>

\* the value of field f in the members ms: the last member of that name
FieldOf(ms, f) ==
    LET at_ == {i \in 1..Len(ms) : ms[i].name = f}
    IN  IF at_ = {} THEN Null
        ELSE Some(ms[CHOOSE i \in at_ : \A j \in at_ : j <= i].value)

\* JSON.parse(text): the object, or a SyntaxError
Parse(text) ==
    IF /\ Len(text) >= 2
       /\ text[1] = OpenBrace
       /\ text[Len(text)] = CloseBrace
       /\ \A i \in 2..(Len(text) - 1) : text[i].tok = "member"
    THEN [thrown |-> FALSE,
          value |-> [f \in {"openai", "anthropic", "google"} |->
                        FieldOf(SubSeq(text, 2, Len(text) - 1), f)]]
    ELSE [thrown |-> TRUE, value |-> NoKeys]

\* loadKeys with no try around the parse
loadKeysNoCatch(hasWindow, store) ==
    IF ~hasWindow THEN [value |-> NoKeys, raised |-> FALSE]
    ELSE IF store # Null /\ store[1] # <<>>
    THEN [value |-> Parse(store[1]).value, raised |-> Parse(store[1]).thrown]
    ELSE [value |-> NoKeys, raised |-> FALSE]

\* loadKeys (part_000:74-82); store is localStorage.getItem(STORAGE_KEY)
loadKeys(hasWindow, store) ==
    IF ~hasWindow THEN [value |-> NoKeys, raised |-> FALSE]
    ELSE IF store # Null /\ store[1] # <<>>
    THEN IF Parse(store[1]).thrown
         THEN [value |-> NoKeys, raised |-> FALSE]
         ELSE [value |-> Parse(store[1]).value, raised |-> FALSE]
    ELSE [value |-> NoKeys, raised |-> FALSE]

\* saveKeys (part_000:84-86): the new stored value
saveKeys(keys) == Some(Stringify(keys))

\* clearKeys (part_000:88-90): the item is removed
clearKeys == Null

\* const val = draft[p.id]?.trim(); if (val) cleaned[p.id] = val
CleanedField(v) ==
    IF v # Null /\ Trim(v[1]) # <<>> THEN Some(Trim(v[1])) ELSE Null

\* cleaned, as handleSave builds it
Cleaned(d) == [f \in {"openai", "anthropic", "google"} |-> CleanedField(d[f])]

\* Object.values(draft).some((v) => v && v.trim().length > 0)
hasAnyKey(d) ==
    \E f \in {"openai", "anthropic", "google"} :
        d[f] # Null /\ d[f][1] # <<>> /\ Len(Trim(d[f][1])) > 0

\* what localStorage may hold when the page is opened: nothing, the empty
\* string, a text that does not parse, or what an earlier visit saved
InitialStorage ==
    {Null, Some(<<>>), Some(Garbage), Some(<<OpenBrace, CloseBrace>>),
     Some(Stringify([openai |-> Some(<<"a">>), anthropic |-> Null,
                     google |-> Some(<<"a">>)]))}

\* the rest of the page at rest
NoSubmit ==
    /\ input = <<>>
    /\ loading = FALSE
    /\ uiResult = Null
    /\ error = Null
    /\ fetches = <<>>
    /\ pending = 0
    /\ answered = Null

InitStore ==
    /\ env = DeploymentEnv
    /\ body = RequestBody(1)
    /\ Entered
    /\ NoneTogether
    /\ storage \in InitialStorage
    /\ draft = NoKeys
    /\ apiKeys = NoKeys
    /\ settingsOpen = FALSE
    /\ loaded = Null
    /\ written = Null
    /\ NoSubmit

\* the page is loaded: the mount effect runs setApiKeys(loadKeys())
\* (part_000:668-675); the state of both components starts afresh
Mount ==
    /\ loaded' = Some(loadKeys(TRUE, storage))
    /\ apiKeys' = IF loadKeys(TRUE, storage).raised THEN NoKeys
                  ELSE loadKeys(TRUE, storage).value
    /\ draft' = NoKeys
    /\ settingsOpen' = FALSE
    /\ UNCHANGED <<storage, written>>
    /\ UNCHANGED <<env, oneVars, twoVars, input, loading, uiResult, error,
                   fetches, pending, answered>>

\* setSettingsOpen(true); the effect on open copies the keys into the
\* draft (part_000:120-127, 771)
OpenSettings ==
    /\ loaded # Null
    /\ ~settingsOpen
    /\ settingsOpen' = TRUE
    /\ draft' = apiKeys
    /\ UNCHANGED <<storage, apiKeys, loaded, written>>
    /\ UNCHANGED <<env, oneVars, twoVars, input, loading, uiResult, error,
                   fetches, pending, answered>>

\* onClose without saving (part_000:159, 176, 293)
CloseSettings ==
    /\ settingsOpen
    /\ settingsOpen' = FALSE
    /\ UNCHANGED <<storage, draft, apiKeys, loaded, written>>
    /\ UNCHANGED <<env, oneVars, twoVars, input, loading, uiResult, error,
                   fetches, pending, answered>>

\* onChange of a provider's input (part_000:241-246)
SetDraft ==
    /\ settingsOpen
    /\ \E k \in 1..Len(ProviderIds), v \in KeyStrings :
         draft' = [draft EXCEPT ![ProviderIds[k]] = Some(v)]
    /\ UNCHANGED <<storage, apiKeys, settingsOpen, loaded, written>>
    /\ UNCHANGED <<env, oneVars, twoVars, input, loading, uiResult, error,
                   fetches, pending, answered>>

\* handleSave (part_000:130-140)
handleSave ==
    /\ settingsOpen
    /\ storage' = saveKeys(Cleaned(draft))
    /\ written' = Some([op |-> "saveKeys", keys |-> Cleaned(draft)])
    /\ apiKeys' = Cleaned(draft)
    /\ settingsOpen' = FALSE
    /\ UNCHANGED <<draft, loaded>>
    /\ UNCHANGED <<env, oneVars, twoVars, input, loading, uiResult, error,
                   fetches, pending, answered>>

\* handleClearAll (part_000:142-146); its button is disabled without a key
\* in the draft (part_000:285)
handleClearAll ==
    /\ settingsOpen
    /\ hasAnyKey(draft)
    /\ storage' = clearKeys
    /\ written' = Some([op |-> "clearKeys", keys |-> NoKeys])
    /\ apiKeys' = NoKeys
    /\ draft' = NoKeys
    /\ UNCHANGED <<settingsOpen, loaded>>
    /\ UNCHANGED <<env, oneVars, twoVars, input, loading, uiResult, error,
                   fetches, pending, answered>>

NextStore ==
    \/ Mount
    \/ OpenSettings
    \/ CloseSettings
    \/ SetDraft
    \/ handleSave
    \/ handleClearAll

\* the page with its settings dialog
SpecStore == InitStore /\ [][NextStore]_vars

----------------------------------------------------------------------------
(* The page: the submit flow (src/unnamed/part_000:656-736).  React runs
   the state updates of an event handler and renders before the next event
   is handled, so a handler reads the state as the last event left it; the
   updates made after the await, in the catch and in the finally are
   rendered together. *)

MaxSubmits == 2

\* the apiKeys the page may hold when a prompt is submitted
SubmitKeys ==
    {NoKeys,
     [openai |-> Some(<<" ", "a", " ">>), anthropic |-> Some(<<" ">>),
      google |-> Null]}

\* keysToSend (part_000:702-706)
keysToSend(keys) ==
    [openai |-> CleanedField(keys.openai),
     anthropic |-> CleanedField(keys.anthropic),
     google |-> CleanedField(keys.google)]

\* what the response body parses to: data is <<>> for the JSON value null
\* and else a record; err is data.error, <<>> when the object has none
Data(isNull, err, payload) ==
    [isNull |-> isNull, error |-> err, payload |-> payload]

\* the ways the request may settle: fetch rejects; or it resolves with a
\* response whose body is the payload, an error object of the route, an
\* object without an error field, the JSON value null, or no JSON at all
FetchOutcomes ==
    {[rejected |-> Some(f), ok |-> FALSE, status |-> 0, json |-> Null] :
        f \in {Fault(TRUE, "Failed to fetch"), Fault(FALSE, "")}}
      \cup {[rejected |-> Null, ok |-> TRUE, status |-> 200,
             json |-> Some(Data(FALSE, Null, "payload"))],
            [rejected |-> Null, ok |-> TRUE, status |-> 200,
             json |-> Some(Data(TRUE, Null, ""))],
            [rejected |-> Null, ok |-> TRUE, status |-> 200, json |-> Null]}
      \cup {[rejected |-> Null, ok |-> FALSE, status |-> st,
             json |-> Some(Data(FALSE, Some("All models failed to respond."), ""))] :
                st \in {400, 500, 502}}
      \cup {[rejected |-> Null, ok |-> FALSE, status |-> 504, json |-> j] :
                j \in {Some(Data(FALSE, Null, "")), Some(Data(TRUE, Null, "")),
                       Null}}

\* what leaves the try block: the data given to setResult, or the fault the
\* catch receives
TrySubmit(o) ==
    IF o.rejected # Null THEN [data |-> Null, caught |-> o.rejected]
    ELSE IF o.json = Null
    THEN [data |-> Null,
          caught |-> Some(Fault(TRUE, "Unexpected token < in JSON"))]
    ELSE IF ~o.ok
    THEN IF o.json[1].isNull
         THEN [data |-> Null,
               caught |-> Some(Fault(TRUE, "Cannot read properties of null"))]
         ELSE [data |-> Null,
               caught |-> Some(Fault(TRUE,
                    Coalesce(o.json[1].error,
                             "Request failed (" \o ToString(o.status) \o ")")))]
    ELSE [data |-> o.json, caught |-> Null]

\* err instanceof Error ? err.message : "Something went wrong."
CaughtMessage(f) == IF f.isError THEN f.message ELSE "Something went wrong."

\* a guard that looks at the prompt alone
SubmitBlockedBlankOnly(p, l) == Trim(p) = <<>>

\* if (!prompt.trim() || loading) return
SubmitBlocked(p, l) == Trim(p) = <<>> \/ l

InitSubmit ==
    /\ env = DeploymentEnv
    /\ body = RequestBody(1)
    /\ Entered
    /\ NoneTogether
    /\ storage = Null
    /\ draft = NoKeys
    /\ apiKeys \in SubmitKeys
    /\ settingsOpen = FALSE
    /\ loaded = Null
    /\ written = Null
    /\ NoSubmit

\* onChange of the textarea, which is disabled while loading
\* (part_000:816-829)
SetPrompt ==
    /\ ~loading
    /\ \E v \in SeqsUpTo(Chars, MaxPromptLen) : input' = v
    /\ UNCHANGED <<loading, uiResult, error, fetches, pending, answered>>
    /\ UNCHANGED <<env, oneVars, twoVars, storage, draft, apiKeys,
                   settingsOpen, loaded, written>>

\* handleSubmit up to its await (part_000:692-712)
SubmitBody ==
    IF SubmitBlocked(input, loading)
    THEN UNCHANGED <<loading, uiResult, error, fetches, pending>>
    ELSE /\ loading' = TRUE
         /\ error' = Null
         /\ uiResult' = Null
         /\ fetches' = Append(fetches, [prompt |-> Trim(input),
                                        keys |-> keysToSend(apiKeys)])
         /\ pending' = pending + 1

\* the form's submit event (part_000:809)
handleSubmit ==
    /\ Len(fetches) < MaxSubmits
    /\ SubmitBody
    /\ UNCHANGED <<input, answered>>
    /\ UNCHANGED <<env, oneVars, twoVars, storage, draft, apiKeys,
                   settingsOpen, loaded, written>>

\* handleKeyDown (part_000:731-736); a disabled textarea has no key events
handleKeyDown ==
    /\ ~loading
    /\ Len(fetches) < MaxSubmits
    /\ \E key \in {"Enter", "a"}, shiftKey \in BOOLEAN :
         IF key = "Enter" /\ ~shiftKey
         THEN SubmitBody
         ELSE UNCHANGED <<loading, uiResult, error, fetches, pending>>
    /\ UNCHANGED <<input, answered>>
    /\ UNCHANGED <<env, oneVars, twoVars, storage, draft, apiKeys,
                   settingsOpen, loaded, written>>

\* the request settles: the rest of handleSubmit (part_000:714-728)
SubmitSettle ==
    /\ pending > 0
    /\ \E o \in FetchOutcomes :
         /\ answered' = Some(o)
         /\ IF TrySubmit(o).caught = Null
            THEN uiResult' = TrySubmit(o).data /\ UNCHANGED error
            ELSE /\ error' = Some(CaughtMessage(TrySubmit(o).caught[1]))
                 /\ UNCHANGED uiResult
    /\ loading' = FALSE
    /\ pending' = pending - 1
    /\ UNCHANGED <<input, fetches>>
    /\ UNCHANGED <<env, oneVars, twoVars, storage, draft, apiKeys,
                   settingsOpen, loaded, written>>

NextSubmit ==
    \/ SetPrompt
    \/ handleSubmit
    \/ handleKeyDown
    \/ SubmitSettle

\* the page with its prompt form
SpecSubmit == InitSubmit /\ [][NextSubmit]_vars

----------------------------------------------------------------------------
(* Vocabulary of the properties *)

\* xText and xError of provider p
TextOf(p) ==
    CASE p = "gpt" -> gptText [] p = "claude" -> claudeText
      [] p = "gemini" -> geminiText
ErrorOf(p) ==
    CASE p = "gpt" -> gptError [] p = "claude" -> claudeError
      [] p = "gemini" -> geminiError

Done == pc = "done"
Resp == response[1]

\* the provider's call has settled, and how
Resolved(p) == settled[p] # Null /\ settled[p][1].resolved
Failed(p) == settled[p] # Null /\ ~settled[p][1].resolved
\* the call resolved with text that is not the empty string
ReturnedText(p) == Resolved(p) /\ settled[p][1].text # ""

\* every character of the string is whitespace
Blank(str) == \A i \in 1..Len(str) : str[i] = " "

\* the request carries a prompt that is a string and not blank
ValidRequest ==
    /\ body.kind = "object"
    /\ body.prompt.t = "string"
    /\ ~Blank(body.prompt.s)

\* the judge call resolved with an object that carries every required field
\* with a value of the schema's type
JudgeValidated ==
    /\ judged # Null
    /\ judged[1].fault = Null
    /\ LET o == judged[1].object[1]
       IN  /\ o.consensus_score.t = "number"
           /\ o.consensus_level \in {"High", "Medium", "Low"}
           /\ o.summary # Null
           /\ o.claims # Null
           /\ \A i \in 1..Len(o.claims[1]) :
                \A j \in 1..Len(o.claims[1][i].supporters) :
                    o.claims[1][i].supporters[j]
                        \in {"GPT-5.2", "Claude 3.5 Sonnet", "Gemini 2 Flash"}

\* the body is the success payload: the Verdict fields and raw_answers
IsPayload(b) ==
    DOMAIN b = {"consensus_score", "consensus_level", "summary", "claims",
                "conflicts", "raw_answers"}

\* raw_answers has exactly the three entries, each the text or the sentinel
\* according to has(p)
RawAnswersAre(b, has(_)) ==
    /\ DOMAIN b.raw_answers = {"gpt", "claude", "gemini"}
    /\ \A p \in Providers :
         b.raw_answers[p] = IF has(p) THEN settled[p][1].text ELSE "[unavailable]"

----------------------------------------------------------------------------
(* C1 *)

----------------------------------------------------------------------------
(* C2 *)

RECURSIVE FailedInOrder(_)
\* the providers of the list that failed, in the list's order, each with its
\* label and message
FailedInOrder(ps) ==
    IF ps = <<>> THEN <<>>
    ELSE (IF Failed(Head(ps))
          THEN <<<<DisplayName(Head(ps)), ": ", settled[Head(ps)][1].message>>>>
          ELSE <<>>) \o FailedInOrder(Tail(ps))

\* C2: once the handler has returned for a valid request in which no
\* provider produced text, no generateObject call was made, the response is
\* 502 with a body of exactly error and failures, and failures has one
\* entry per failed provider carrying its message (three when all failed).
C2_TotalFailure ==
    (Done /\ ValidRequest /\ \A p \in Providers : ~ReturnedText(p))
        => /\ judgeReq = <<>>
           /\ Resp.status = 502
           /\ DOMAIN Resp.body = {"error", "failures"}
           /\ Resp.body.failures = FailedInOrder(<<"gpt", "claude", "gemini">>)
           /\ ((\A p \in Providers : Failed(p)) => Len(Resp.body.failures) = 3)

----------------------------------------------------------------------------
(* C3 *)

\* C3: whenever a generateObject call has been made, the model it was given
\* belongs to a provider whose call returned text in this round.
C3_JudgeAnswered ==
    \A i \in 1..Len(judgeReq) : ReturnedText(judgeReq[i].model)

----------------------------------------------------------------------------
(* C4 *)

\* C4: for a request whose body is not JSON, or whose prompt is missing,
\* not a string or blank, no generateText and no generateObject call is
\* ever made, and once the handler has returned the response is 400 with a
\* body of exactly error.
C4_Validation ==
    ~ValidRequest
        => /\ \A p \in Providers : calls[p] = 0
           /\ judgeReq = <<>>
           /\ Done => /\ Resp.status = 400
                      /\ DOMAIN Resp.body = {"error"}

\* a prompt of whitespace only was answered with 400
C4_Witness ==
    /\ Done
    /\ body.kind = "object" /\ body.prompt.t = "string"
    /\ Len(body.prompt.s) > 0 /\ Blank(body.prompt.s)
    /\ Resp.status = 400

----------------------------------------------------------------------------
(* C5 *)

\* C5: for a valid request no provider is ever called more than once; a
\* call that failed left its message in the provider's error and no text;
\* and once the handler has returned, each provider has been called once
\* and its call has settled, whatever the other calls did.
C5_EveryProviderOnce ==
    ValidRequest
        => /\ \A p \in Providers :
                /\ calls[p] <= 1
                /\ Failed(p) => /\ ErrorOf(p) = Some(settled[p][1].message)
                                /\ TextOf(p) = Null
           /\ Done => \A p \in Providers : calls[p] = 1 /\ settled[p] # Null

\* the handler returned after GPT and Claude failed and Gemini answered
C5_Witness ==
    /\ Done /\ ValidRequest
    /\ Failed("gpt") /\ Failed("claude") /\ ReturnedText("gemini")
    /\ \A p \in Providers : calls[p] = 1

----------------------------------------------------------------------------
(* C6 *)

VerdictFields ==
    {"consensus_score", "consensus_level", "summary", "claims", "conflicts"}

\* C6: once the handler has returned, if the judge call failed or its
\* output did not pass the schema the response is 500 with a body of
\* exactly error and details; and a body that carries raw_answers or any
\* Verdict field was returned only for a judge output that passed in full.
C6_NoPartialVerdict ==
    Done
        => /\ (judged # Null /\ ~JudgeValidated)
                => /\ Resp.status = 500
                   /\ DOMAIN Resp.body = {"error", "details"}
           /\ (DOMAIN Resp.body \cap (VerdictFields \cup {"raw_answers"}) # {})
                => JudgeValidated /\ Resp.status = 200

\* the judge resolved with an object whose level is outside the enum, and
\* the handler answered 500
C6_Witness ==
    /\ Done
    /\ judged # Null /\ judged[1].fault = Null
    /\ judged[1].object[1].consensus_level = "Unanimous"
    /\ Resp.status = 500
    /\ Resp.body.details = SchemaFault.message

----------------------------------------------------------------------------
(* C7 *)

\* the number is an integer in 0..100
IntegerScore(v) ==
    /\ v.t = "number"
    /\ v.num % v.den = 0
    /\ 0 <= v.num /\ v.num <= 100 * v.den

\* C7: every success payload has a consensus_score that is an integer in
\* 0..100, and a judge output whose score is not is answered with 500.
C7_ScoreInRange ==
    Done
        => /\ Resp.status = 200 => IntegerScore(Resp.body.consensus_score)
           /\ (/\ judged # Null /\ judged[1].fault = Null
               /\ ~IntegerScore(judged[1].object[1].consensus_score))
                => Resp.status = 500

----------------------------------------------------------------------------
(* C8 *)

\* the display names of the providers whose raw_answers entry is not the
\* sentinel
AnsweredNames(b) ==
    {DisplayName(p) : p \in {q \in Providers : b.raw_answers[q] # "[unavailable]"}}

\* C8: in every success payload, every name among a claim's supporters and
\* dissenters is the name of a provider whose raw_answers entry is not
\* "[unavailable]".
C8_AttributionToAnswered ==
    (Done /\ Resp.status = 200)
        => \A i \in 1..Len(Resp.body.claims) :
             LET c == Resp.body.claims[i]
             IN  /\ \A j \in 1..Len(c.supporters) :
                      c.supporters[j] \in AnsweredNames(Resp.body)
                 /\ \A j \in 1..Len(c.dissenters) :
                      c.dissenters[j] \in AnsweredNames(Resp.body)

----------------------------------------------------------------------------
(* C9 *)

\* the banding the specification gives as its example: High from 70,
\* Medium from 40, Low below
Band(v) ==
    IF v.num >= 70 * v.den THEN "High"
    ELSE IF v.num >= 40 * v.den THEN "Medium"
    ELSE "Low"

\* C9: in every success payload whose score lies in 0..100,
\* consensus_level is the band of consensus_score.
C9_LevelMatchesScore ==
    (/\ Done /\ Resp.status = 200
     /\ 0 <= Resp.body.consensus_score.num
     /\ Resp.body.consensus_score.num <= 100 * Resp.body.consensus_score.den)
        => Resp.body.consensus_level = Band(Resp.body.consensus_score)

----------------------------------------------------------------------------
(* C10 *)

\* the handler has run past maxDuration seconds
PastDeadline == elapsed > maxDuration * 1000

\* C10: once the handler has returned after running past the deadline, the
\* response is a timeout error: it is none of the payload, the validation
\* error, the total-failure error (502) and the synthesis error (500).
C10_TimeoutResponse ==
    (Done /\ PastDeadline) => Resp.status \notin {200, 400, 502, 500}

----------------------------------------------------------------------------
(* C11 *)

\* the keys written under raw_answers, in the order they are written
RawAnswersOrder(order) ==
    SelectSeq(order, LAMBDA k : k \in {"raw_answers.gpt", "raw_answers.claude",
                                        "raw_answers.gemini"})

\* C11: the success payload is a function of the validated judge output
\* and the three provider outcomes alone: every Verdict field has the value
\* the judge gave it, an optional field the judge left out is not written,
\* each raw_answers entry is the text the provider's call resolved with or
\* "[unavailable]" when it failed, and raw_answers is written in the order
\* gpt, claude, gemini, after the Verdict fields.
C11_PayloadMerge ==
    (Done /\ Resp.status = 200)
        => LET o == judged[1].object[1]
           IN  /\ Resp.body.consensus_score = o.consensus_score
               /\ Resp.body.consensus_level = o.consensus_level
               /\ Resp.body.summary = o.summary[1]
               /\ Resp.body.claims = o.claims[1]
               /\ Resp.body.conflicts = o.conflicts
               /\ \A p \in Providers :
                    Resp.body.raw_answers[p] =
                        IF Resolved(p) THEN settled[p][1].text
                        ELSE "[unavailable]"
               /\ RawAnswersOrder(Resp.order)
                    = <<"raw_answers.gpt", "raw_answers.claude",
                        "raw_answers.gemini">>
               /\ Resp.order[Len(Resp.order) - 3] = "raw_answers"
               /\ SubSeq(Resp.order, 1, 4)
                    = <<"consensus_score", "consensus_level", "summary",
                        "claims">>
               /\ Len(Resp.order) = IF o.conflicts = Null THEN 8 ELSE 9

\* a payload was returned for a round in which Claude failed and the other
\* two returned text, with a judge output that carries conflicts
C11_Witness ==
    /\ Done /\ Resp.status = 200
    /\ ReturnedText("gpt") /\ Failed("claude") /\ ReturnedText("gemini")
    /\ judged[1].object[1].conflicts # Null
    /\ Len(Resp.order) = 9

----------------------------------------------------------------------------
(* C12 *)

\* the response of an invocation run alone on body b under environment e
\* whose calls settle as h says
Alone(b, e, h) ==
    IF b.kind = "malformed"
    THEN Json([error |-> "Invalid JSON in request body."], <<"error">>, 400)
    ELSE IF PromptRejected(BodyPrompt(b))
    THEN Json([error |-> "A non-empty 'prompt' field is required."],
              <<"error">>, 400)
    ELSE LET g == TryGenerateText(h.gpt[1])
             c == TryGenerateText(h.claude[1])
             m == TryGenerateText(h.gemini[1])
         IN  IF successCount(g.text, c.text, m.text) = 0
             THEN Json([error |-> "All models failed to respond.",
                        failures |-> failures(g.error, c.error, m.error)],
                       <<"error", "failures">>, 502)
             ELSE LET r == GenerateObject(h.judge[1])
                  IN  IF r.thrown # Null
                      THEN CatchResponse(r.thrown[1])
                      ELSE Json(Payload(r.object[1], g.text, c.text, m.text),
                                PayloadOrder(r.object[1]), 200)

\* the invocation followed alone answers as Alone says
AloneIsTheHandler ==
    Done => Resp = Alone(body, env,
                         [gpt |-> settled["gpt"], claude |-> settled["claude"],
                          gemini |-> settled["gemini"], judge |-> judged])

\* the keys request j supplies
KeysOf(j) ==
    LET k == BodyKeys(RequestBody(j))
    IN  {v[1] : v \in {k.openai, k.anthropic, k.google} \ {Null}}

\* the texts request j's provider calls resolved with
TextsOf(j) ==
    {heard[j][p][1].text :
        p \in {q \in Providers : heard[j][q] # Null /\ heard[j][q][1].resolved}}

\* the provider texts a call or a response shows
Shown(x) ==
    IF "question" \in DOMAIN x THEN {x.A, x.B, x.C}
    ELSE IF "raw_answers" \in DOMAIN x
    THEN {x.raw_answers[p] : p \in Providers}
    ELSE {}

\* the k-th call of invocation i is the judge call
IsJudgeCall(i, k) == k = 4

\* C12: in every interleaving of the concurrent invocations, an invocation
\* that has returned answered what it would answer alone on its own body
\* with the outcomes its own calls had; every call it issued carries its own
\* prompt and a credential built from its own keys or the environment; and
\* no key and no provider text of another invocation appears in its calls
\* or its response.
C12_Isolation ==
    \A i \in Requests :
        LET own == buildModels(BodyKeys(RequestBody(i)), env)
        IN  /\ at[i] = "done"
                => replies[i] = Some(Alone(RequestBody(i), env, heard[i]))
            /\ \A k \in 1..Len(wire[i]) :
                 /\ wire[i][k].model \in {own.gpt, own.claude, own.gemini}
                 /\ ~IsJudgeCall(i, k)
                        => wire[i][k].prompt = RequestBody(i).prompt.s
                 /\ IsJudgeCall(i, k)
                        => wire[i][k].prompt.question = RequestBody(i).prompt.s
            /\ \A j \in Requests \ {i} :
                 /\ \A k \in 1..Len(wire[i]) :
                      /\ wire[i][k].model.apiKey \notin KeysOf(j)
                      /\ IsJudgeCall(i, k)
                            => Shown(wire[i][k].prompt) \cap TextsOf(j) = {}
                 /\ replies[i] # Null
                        => Shown(replies[i][1].body) \cap TextsOf(j) = {}

\* all the invocations ran to a payload, each issued its four calls and
\* shows its own GPT text; Claude failed for the first and answered the
\* second
C12_Witness ==
    /\ \A i \in Requests :
         /\ at[i] = "done" /\ replies[i][1].status = 200
         /\ replies[i][1].body.raw_answers["gpt"] = "answer" \o ToString(i)
         /\ Len(wire[i]) = 4
    /\ heard[1]["claude"] # Null /\ ~heard[1]["claude"][1].resolved
    /\ heard[2]["claude"] # Null /\ heard[2]["claude"][1].resolved

----------------------------------------------------------------------------
(* C13 *)

\* the response is one of the four kinds, and an error kind carries an
\* error message that is not empty
OneOfFourKinds(r) ==
    \/ r.status = 200 /\ IsPayload(r.body)
    \/ /\ \/ r.status = 400 /\ DOMAIN r.body = {"error"}
          \/ r.status = 502 /\ DOMAIN r.body = {"error", "failures"}
          \/ r.status = 500 /\ DOMAIN r.body = {"error", "details"}
       /\ r.body.error # ""

\* C13: when every await of the handler settles, the handler eventually
\* returns; it has a response exactly when it has returned, the response
\* never changes once given, and it is the success payload, 400 {error},
\* 502 {error, failures} or 500 {error, details}, each error kind with a
\* non-empty error message.
C13_EndsWithOneResponse ==
    /\ <>Done
    /\ [](Done <=> response # Null)
    /\ [](response # Null => OneOfFourKinds(Resp))
    /\ [][response # Null => response' = response]_vars

\* every provider failed with an empty message: the 502 lists no failure
\* and still carries its error message
C13_Witness ==
    /\ Done /\ Resp.status = 502
    /\ Resp.body.failures = <<>>
    /\ Resp.body.error = "All models failed to respond."

----------------------------------------------------------------------------
(* C14 *)

\* the request's key for the provider, <<>> when the request has none
RequestKey(p) ==
    IF body.kind # "object" \/ body.keys = Null THEN Null
    ELSE CASE p = "gpt" -> body.keys[1].openai
           [] p = "claude" -> body.keys[1].anthropic
           [] p = "gemini" -> body.keys[1].google

\* the deployment's key for the provider, <<>> when the variable is unset
EnvKey(p) ==
    CASE p = "gpt" -> env.OPENAI_API_KEY
      [] p = "claude" -> env.ANTHROPIC_API_KEY
      [] p = "gemini" -> env.GOOGLE_GENERATIVE_AI_API_KEY

\* the credential the claim gives the provider: the request's key when it
\* is a non-empty string, else the deployment's, which is the empty string
\* when the variable is unset
Credential(p) ==
    IF RequestKey(p) # Null /\ RequestKey(p)[1] # "" THEN RequestKey(p)[1]
    ELSE IF EnvKey(p) # Null THEN EnvKey(p)[1]
    ELSE ""

\* the provider the k-th generateText call goes to
CallOrder == <<"gpt", "claude", "gemini">>

\* the client of each provider
ClientOf(p) ==
    CASE p = "gpt" -> "openai" [] p = "claude" -> "anthropic"
      [] p = "gemini" -> "google"

\* C14: every provider call goes to the provider's own client with the
\* request's key for that provider when that key is a non-empty string and
\* with the deployment's key otherwise, and the judge call uses the client
\* and the credential of the provider chosen as judge; so a key supplied
\* for one provider reaches no other provider.
C14_Credentials ==
    /\ \A k \in 1..Len(sent) :
         /\ sent[k].model.provider = ClientOf(CallOrder[k])
         /\ sent[k].model.apiKey = Credential(CallOrder[k])
    /\ \A k \in 1..Len(judgeReq) :
         /\ judgeReq[k].instance.provider = ClientOf(judgeReq[k].model)
         /\ judgeReq[k].instance.apiKey = Credential(judgeReq[k].model)

\* the request gave a key for OpenAI, the empty string for Anthropic and
\* nothing for Google; GPT failed, so Gemini judged with the deployment's
\* key
C14_Witness ==
    /\ Done /\ Len(sent) = 3 /\ Len(judgeReq) = 1
    /\ RequestKey("gpt") = Some("sk-user-openai")
    /\ RequestKey("claude") = Some("")
    /\ RequestKey("gemini") = Null
    /\ env = DeploymentEnv
    /\ sent[1].model.apiKey = "sk-user-openai"
    /\ sent[2].model.apiKey = "sk-env-anthropic"
    /\ judgeReq[1].model = "gemini"
    /\ judgeReq[1].instance.apiKey = "sk-env-google"

----------------------------------------------------------------------------
(* C15 *)

\* the providers whose call has been issued, in the order of issue
Issued == [k \in 1..Len(sent) |-> sent[k].model.provider]

\* C15: the provider calls are issued in the order GPT, Claude, Gemini, each
\* at most once and at most one outstanding at a time; when the Claude call
\* has been issued the GPT call has settled and the first timer has fired,
\* when the Gemini call has been issued the Claude call has settled and the
\* second timer has fired; and once a call has settled, however it
\* settled, the next call is not issued until the timer started after it
\* has fired.
C15_OneAtATime ==
    /\ Cardinality(outstanding) <= 1
    /\ Issued = SubSeq(<<"openai", "anthropic", "google">>, 1, Len(sent))
    /\ \A p \in Providers : calls[p] <= 1
    /\ calls["claude"] = 1 => settled["gpt"] # Null /\ timers >= 1
    /\ calls["gemini"] = 1 => settled["claude"] # Null /\ timers = 2
    /\ (settled["gpt"] # Null /\ timers = 0)
            => pc = "sleep1" /\ calls["claude"] = 0
    /\ (settled["claude"] # Null /\ timers = 1)
            => pc = "sleep2" /\ calls["gemini"] = 0
    /\ \A p \in Providers : p \in outstanding => settled[p] = Null

\* GPT and Claude both failed, both timers fired all the same, and the
\* Gemini call is outstanding
C15_Witness ==
    /\ Failed("gpt") /\ Failed("claude")
    /\ timers = 2
    /\ outstanding = {"gemini"}
    /\ Len(sent) = 3
    /\ elapsed >= 2 * SleepMs

----------------------------------------------------------------------------
(* C16 *)

\* C16, as stated, a provider having succeeded when its call resolved and
\* failed when it rejected: GPT judges whenever GPT succeeded, Gemini
\* judges exactly when GPT failed and Gemini succeeded, and Claude judges
\* exactly when GPT and Gemini failed and Claude succeeded.
C16_JudgePriority ==
    \A k \in 1..Len(judgeReq) :
        LET j == judgeReq[k].model
        IN  /\ Resolved("gpt") => j = "gpt"
            /\ j = "gemini" <=> (Failed("gpt") /\ Resolved("gemini"))
            /\ j = "claude"
                <=> (Failed("gpt") /\ Failed("gemini") /\ Resolved("claude"))

----------------------------------------------------------------------------
(* C17 *)

\* the providers whose call resolved with text that is not empty
Answered == {p \in Providers : ReturnedText(p)}

AllSettled == \A p \in Providers : settled[p] # Null

\* C17: generateObject is called at most once; when it has been called all
\* three provider calls have settled; and once they have all settled it
\* has been called exactly when at least one provider returned non-empty
\* text.
C17_JudgeGate ==
    /\ Len(judgeReq) <= 1
    /\ Len(judgeReq) = 1 => AllSettled
    /\ judged # Null => Len(judgeReq) = 1
    /\ AllSettled => (Len(judgeReq) = 1 <=> Cardinality(Answered) >= 1)

\* one provider returned text, one returned the empty string and one
\* failed: the judge was called, once
C17_Witness ==
    /\ Done
    /\ ReturnedText("claude")
    /\ Resolved("gpt") /\ ~ReturnedText("gpt")
    /\ Failed("gemini")
    /\ Len(judgeReq) = 1

----------------------------------------------------------------------------
(* C18 *)

\* the providers with a recorded error
WithError == {p \in Providers : ErrorOf(p) # Null}

\* C18, as stated, a local being populated when it is not null: once a
\* provider's call has settled exactly one of its text and its error is
\* populated, both are still what the call settled with, and once all
\* three have settled the providers counted in successCount and the
\* providers with a recorded error add up to three.
C18_OutcomeShape ==
    /\ \A p \in Providers :
         settled[p] # Null
            => /\ (TextOf(p) # Null) # (ErrorOf(p) # Null)
               /\ TextOf(p) = IF settled[p][1].resolved
                              THEN Some(settled[p][1].text) ELSE Null
               /\ ErrorOf(p) = IF settled[p][1].resolved
                               THEN Null ELSE Some(settled[p][1].message)
    /\ AllSettled
         => successCount(gptText, claudeText, geminiText)
                + Cardinality(WithError) = 3

----------------------------------------------------------------------------
(* C19 *)

\* C19, as stated: in every success payload, a claim that carries a warning
\* has a dissenters list that is not empty.
C19_WarningNeedsDissent ==
    (Done /\ Resp.status = 200)
        => \A i \in 1..Len(Resp.body.claims) :
              Resp.body.claims[i].warning # Null
                  => Resp.body.claims[i].dissenters # <<>>

----------------------------------------------------------------------------
(* C20 *)

\* what the judge prompt shows for the provider
ShownToJudge(p) ==
    CASE p = "gpt" -> judgeReq[1].prompt.A
      [] p = "claude" -> judgeReq[1].prompt.B
      [] p = "gemini" -> judgeReq[1].prompt.C

\* the provider's text is one of those successCount counts
Counted(p) == Truthy(TextOf(p))

\* C20, as stated: in every success payload, for each provider the judge
\* prompt shows "[MODEL UNAVAILABLE]" exactly when raw_answers shows
\* "[unavailable]" and exactly when the provider was not counted in
\* successCount, and otherwise both show the provider's text.
C20_ViewsAgree ==
    (Done /\ Resp.status = 200)
        => \A p \in Providers :
              /\ ShownToJudge(p) = "[MODEL UNAVAILABLE]"
                    <=> Resp.body.raw_answers[p] = "[unavailable]"
              /\ Resp.body.raw_answers[p] = "[unavailable]" <=> ~Counted(p)
              /\ Counted(p)
                    => /\ ShownToJudge(p) = TextOf(p)[1]
                       /\ Resp.body.raw_answers[p] = TextOf(p)[1]

----------------------------------------------------------------------------
(* C21 *)

\* the stored text is a JSON object of string members
IsObjectText(t) ==
    /\ Len(t) >= 2
    /\ t[1].tok = "{" /\ t[Len(t)].tok = "}"
    /\ \A i \in 2..(Len(t) - 1) : t[i].tok = "member"

\* the string is not empty and has no whitespace at either end
TrimmedNonEmpty(str) ==
    str # <<>> /\ ~IsSpace(str[1]) /\ ~IsSpace(str[Len(str)])

\* C21: at any moment loadKeys returns without raising; once saveKeys or
\* clearKeys has been called it returns the keys of the last saveKeys when
\* that was the last of them and the empty mapping when clearKeys was; it
\* returns the empty mapping when nothing is stored or the stored text does
\* not parse; no call of loadKeys made by the page raised; and the keys
\* handleSave stored have only values that are non-empty and trimmed.
C21_StoreRoundTrip ==
    /\ ~loadKeys(TRUE, storage).raised
    /\ written # Null
        => loadKeys(TRUE, storage).value
              = IF written[1].op = "saveKeys" THEN written[1].keys ELSE NoKeys
    /\ (storage = Null \/ ~IsObjectText(storage[1]))
        => loadKeys(TRUE, storage).value = NoKeys
    /\ loaded # Null => ~loaded[1].raised
    /\ (written # Null /\ written[1].op = "saveKeys")
        => \A k \in 1..Len(ProviderIds) :
              written[1].keys[ProviderIds[k]] # Null
                  => TrimmedNonEmpty(written[1].keys[ProviderIds[k]][1])

\* the page loaded the empty mapping; then a draft with a padded key, a
\* blank one and none was saved as the one trimmed key, and that is what
\* loadKeys returns
C21_Witness ==
    /\ loaded # Null /\ loaded[1] = [value |-> NoKeys, raised |-> FALSE]
    /\ draft = [openai |-> Some(<<" ", "a", " ">>), anthropic |-> Some(<<" ">>),
                google |-> Null]
    /\ written # Null /\ written[1].op = "saveKeys"
    /\ storage = Some(<<OpenBrace, Member("openai", <<"a">>), CloseBrace>>)
    /\ loadKeys(TRUE, storage).value
         = [openai |-> Some(<<"a">>), anthropic |-> Null, google |-> Null]

----------------------------------------------------------------------------
(* C22 *)

\* the request did not end in an OK response with a body that parses
Unsuccessful(o) == o.rejected # Null \/ ~o.ok \/ o.json = Null

\* C22: at most one request is in flight, and one is exactly while loading
\* is true; every request sent carries a prompt that is trimmed and not
\* empty; while a request is in flight result and error are both clear;
\* and once it has settled loading is false, result and error are not both
\* set, and error is set, with result clear, when the request was rejected,
\* the response was not OK or its body did not parse, and clear otherwise.
C22_SubmitFlow ==
    /\ pending <= 1
    /\ loading <=> pending = 1
    /\ \A k \in 1..Len(fetches) : TrimmedNonEmpty(fetches[k].prompt)
    /\ pending = 1 => uiResult = Null /\ error = Null
    /\ ~(uiResult # Null /\ error # Null)
    /\ (pending = 0 /\ answered # Null)
        => /\ ~loading
           /\ Unsuccessful(answered[1]) => error # Null /\ uiResult = Null
           /\ ~Unsuccessful(answered[1]) => error = Null

\* two requests were sent, each with the one trimmed key, and the second
\* came back with the payload: the result is shown with no error and
\* nothing is in flight; a blank prompt now stands in the textarea
C22_Witness ==
    /\ Len(fetches) = 2
    /\ pending = 0 /\ ~loading
    /\ answered # Null /\ answered[1].ok
    /\ uiResult # Null /\ uiResult[1].payload = "payload"
    /\ error = Null
    /\ input = <<" ">>
    /\ fetches[1].keys.openai = Some(<<"a">>)
    /\ fetches[1].keys.anthropic = Null

====
